---- MODULE Spec2Model ----
(***************************************************************************)
(* Scene lifecycle and animation-scrubbing controller of                   *)
(* src/scripts/main.js (the second script of the file, lines 437-1063).    *)
(*                                                                         *)
(* Values.  A null reference is 0.  An object is named by the number of    *)
(* the activation (call of init3DScene that got past its guards) that      *)
(* created or loaded it, so two objects made by different activations are  *)
(* different values.  The result `undefined` of getObjectByName is -1.     *)
(*                                                                         *)
(* Time.  mixer.time is kept in units of 1/(FRAMES_PER_SECOND *            *)
(* UnitsPerFrame) seconds, so mixer.time * FRAMES_PER_SECOND is            *)
(* time / UnitsPerFrame and the snap time T / FRAMES_PER_SECOND is         *)
(* T * UnitsPerFrame.  AnimationState.speed is kept in halves (3 is the    *)
(* source's 1.5) and a clock delta in steps of two units, which makes      *)
(* deltaTime * direction * speed the integer d * direction * speed.        *)
(* Floating-point rounding of these products is not modelled.              *)
(*                                                                         *)
(* action.paused is followed through the assignments main.js makes; the    *)
(* side effects of the animation library on its own objects are outside    *)
(* the source.                                                             *)
(***************************************************************************)
EXTENDS Integers, Sequences, FiniteSets, TLC

\* ---- bounds of the model ----
MaxAct == 2
MaxFrame == 2
MaxDelta == 1
NumClips == 2
NumCallbacks == 1
MaxElevation == 100

\* ---- program constants ----
FRAMES_PER_SECOND == 60
DefaultSpeed == 3
UnitsPerFrame == 2

\* CONFIG.LIGHTING intensities in tenths, CONFIG.SKY in degrees
POINT_LIGHT_INTENSITY == 100
SPOT_LIGHT_INTENSITY == 400
HEMISPHERE_INTENSITY == 5
AMBIENT_INTENSITY == 2
SKY_ELEVATION == 90
SKY_AZIMUTH == 90

Null == 0
Undefined == 0 - 1

Frames == 0..MaxFrame
Deltas == 0..MaxDelta
Speeds == {2, DefaultSpeed}
Callbacks == 0..NumCallbacks

\* what setAnimationSpeed can be handed: it takes any number
SpeedArguments == Speeds \cup {0, 0 - DefaultSpeed}
Acts == 1..MaxAct

\* elevations and azimuths the page passes to updateDaytime: the two ends of
\* the scale, the elevation below which the factor stays at its floor, the
\* horizon, and one value past each end
Elevations ==
    {0 - MaxElevation, 0 - SKY_ELEVATION, 0 - 72, 0, SKY_ELEVATION,
     MaxElevation}
Azimuths == {0, SKY_AZIMUTH}

\* keys of materialPresets, and a name that is not one
Presets == {"black", "wood", "inox"}
MaterialTypes == Presets \cup {"unknown"}

\* SceneState, AnimationState: the two global objects of main.js
\* loads[a]:     the two GLTFLoader requests of activation a
\* started:      number of activations so far
\* loops:        number of animate() callbacks waiting for the next refresh
\* autoDaytime:  automatic updateDaytime calls that took effect since the
\*               current renderer was created
\* setups:       runs of setupLighting / setupSky on the current scene
\* lighting:     intensity of the lights SceneState refers to, exposure of
\*               its renderer and position of its sun, as fractions n / d
\* material:     material of the "AbajurOutside" meshes in the current scene
VARIABLES SceneState, AnimationState, loads, started, loops, autoDaytime,
          setups, lighting, material

vars == <<SceneState, AnimationState, loads, started, loops, autoDaytime,
          setups, lighting, material>>

\* ---- SceneState (main.js 444-464) ----
SceneStateInit ==
    [scene |-> Null, renderer |-> Null, camera |-> Null, controls |-> Null,
     support |-> Null, cylindricalBulb |-> Null, sphericalBulb |-> Null,
     blenderScene |-> Null, sky |-> Null, sun |-> Null, pointLight |-> Null,
     spotLight |-> Null, ambientLight |-> Null, hemisphereLight |-> Null,
     loadingComplete |-> FALSE, isLoading |-> TRUE]

\* ---- AnimationState (main.js 466-476); animations holds action.paused ----
AnimationStateInit ==
    [isPlaying |-> FALSE, currentFrame |-> 0, targetFrame |-> 0,
     direction |-> 0, animations |-> << >>, mixer |-> Null, time |-> 0,
     speed |-> DefaultSpeed, onFrameCallback |-> Null]

\* Math.round(x / y) for y > 0: halves round toward plus infinity
MathRound(x, y) == (2 * x + y) \div (2 * y)

\* time units in one second
UnitsPerSecond == FRAMES_PER_SECOND * UnitsPerFrame

\* Math.round(AnimationState.mixer.time * CONFIG.ANIMATION.FRAMES_PER_SECOND)
FrameOf(t) == MathRound(t * FRAMES_PER_SECOND, UnitsPerSecond)

\* the time mixer.setTime(frame / CONFIG.ANIMATION.FRAMES_PER_SECOND) sets
TimeOfFrame(f) == (f * UnitsPerSecond) \div FRAMES_PER_SECOND

SetPaused(anims, p) == [i \in DOMAIN anims |-> p]

Note(cb, cur, tgt, st) ==
    [cb |-> cb, currentFrame |-> cur, targetFrame |-> tgt, status |-> st]

\* initializeAnimations without the action.paused = true of line 866
initializeAnimationsPlaying(A, a) ==
    [A EXCEPT !.mixer = a,
              !.animations = [i \in 1..NumClips |-> FALSE],
              !.time = 0,
              !.currentFrame = 0]

\* ---- initializeAnimations(gltf) (main.js 852-872) ----
initializeAnimations(A, a) ==
    [A EXCEPT !.mixer = a,
              !.animations = [i \in 1..NumClips |-> TRUE],
              !.time = 0,
              !.currentFrame = 0]

\* updateAnimation that reports the frame reached by the update
updateAnimationReportsAfter(A, d) ==
    IF A.mixer = Null \/ ~A.isPlaying
    THEN [st |-> A, out |-> << >>]
    ELSE LET currentFrame == FrameOf(A.time) IN
         IF \/ (A.direction > 0 /\ currentFrame >= A.targetFrame)
            \/ (A.direction < 0 /\ currentFrame =< A.targetFrame)
         THEN [st |-> [A EXCEPT !.isPlaying = FALSE,
                                !.direction = 0,
                                !.currentFrame = A.targetFrame,
                                !.time = TimeOfFrame(A.targetFrame),
                                !.animations = SetPaused(A.animations, TRUE)],
               out |-> IF A.onFrameCallback # Null
                       THEN << Note(A.onFrameCallback, A.targetFrame,
                                    A.targetFrame, "completed") >>
                       ELSE << >>]
         ELSE LET time == A.time + d * A.direction * A.speed IN
              [st |-> [A EXCEPT !.animations = SetPaused(A.animations, FALSE),
                                !.time = time,
                                !.currentFrame = FrameOf(time)],
               out |-> IF A.onFrameCallback # Null
                       THEN << Note(A.onFrameCallback, FrameOf(time),
                                    A.targetFrame, "playing") >>
                       ELSE << >>]

\* updateAnimation without the mixer.setTime of line 888
updateAnimationNoSnap(A, d) ==
    IF A.mixer = Null \/ ~A.isPlaying
    THEN [st |-> A, out |-> << >>]
    ELSE LET currentFrame == FrameOf(A.time) IN
         IF \/ (A.direction > 0 /\ currentFrame >= A.targetFrame)
            \/ (A.direction < 0 /\ currentFrame =< A.targetFrame)
         THEN [st |-> [A EXCEPT !.isPlaying = FALSE,
                                !.direction = 0,
                                !.currentFrame = A.targetFrame,
                                !.animations = SetPaused(A.animations, TRUE)],
               out |-> IF A.onFrameCallback # Null
                       THEN << Note(A.onFrameCallback, A.targetFrame,
                                    A.targetFrame, "completed") >>
                       ELSE << >>]
         ELSE [st |-> [A EXCEPT !.animations = SetPaused(A.animations, FALSE),
                                !.time = A.time + d * A.direction * A.speed,
                                !.currentFrame = currentFrame],
               out |-> IF A.onFrameCallback # Null
                       THEN << Note(A.onFrameCallback, currentFrame,
                                    A.targetFrame, "playing") >>
                       ELSE << >>]

\* ---- updateAnimation(deltaTime) (main.js 874-921) ----
\* result: the new AnimationState and the notifications passed to the callback
updateAnimation(A, d) ==
    IF A.mixer = Null \/ ~A.isPlaying
    THEN [st |-> A, out |-> << >>]
    ELSE LET currentFrame == FrameOf(A.time) IN
         IF \/ (A.direction > 0 /\ currentFrame >= A.targetFrame)
            \/ (A.direction < 0 /\ currentFrame =< A.targetFrame)
         THEN [st |-> [A EXCEPT !.isPlaying = FALSE,
                                !.direction = 0,
                                !.currentFrame = A.targetFrame,
                                !.time = TimeOfFrame(A.targetFrame),
                                !.animations = SetPaused(A.animations, TRUE)],
               out |-> IF A.onFrameCallback # Null
                       THEN << Note(A.onFrameCallback, A.targetFrame,
                                    A.targetFrame, "completed") >>
                       ELSE << >>]
         ELSE [st |-> [A EXCEPT !.animations = SetPaused(A.animations, FALSE),
                                !.time = A.time + d * A.direction * A.speed,
                                !.currentFrame = currentFrame],
               out |-> IF A.onFrameCallback # Null
                       THEN << Note(A.onFrameCallback, currentFrame,
                                    A.targetFrame, "playing") >>
                       ELSE << >>]

\* playToFrame that leaves direction alone when a seek is already going on
playToFrameKeepsDirection(A, targetFrame, onFrame) ==
    IF A.mixer = Null
    THEN [st |-> A, out |-> << >>]
    ELSE LET currentFrame == FrameOf(A.time) IN
         IF currentFrame = targetFrame
         THEN [st |-> A, out |-> << >>]
         ELSE [st |-> [A EXCEPT !.onFrameCallback = onFrame,
                                !.direction = IF A.isPlaying THEN A.direction
                                              ELSE IF targetFrame > currentFrame
                                              THEN 1 ELSE 0 - 1,
                                !.targetFrame = targetFrame,
                                !.isPlaying = TRUE,
                                !.animations = SetPaused(A.animations, FALSE)],
               out |-> IF onFrame # Null
                       THEN << Note(onFrame, currentFrame, targetFrame,
                                    "started") >>
                       ELSE << >>]

\* playToFrame that compares the target with AnimationState.currentFrame
\* instead of the frame computed from mixer.time
playToFrameByField(A, targetFrame, onFrame) ==
    IF A.mixer = Null
    THEN [st |-> A, out |-> << >>]
    ELSE LET currentFrame == A.currentFrame IN
         IF currentFrame = targetFrame
         THEN [st |-> A, out |-> << >>]
         ELSE [st |-> [A EXCEPT !.onFrameCallback = onFrame,
                                !.direction = IF targetFrame > currentFrame
                                              THEN 1 ELSE 0 - 1,
                                !.targetFrame = targetFrame,
                                !.isPlaying = TRUE,
                                !.animations = SetPaused(A.animations, FALSE)],
               out |-> IF onFrame # Null
                       THEN << Note(onFrame, currentFrame, targetFrame,
                                    "started") >>
                       ELSE << >>]

\* ---- playToFrame(targetFrame, onFrame) (main.js 923-948) ----
playToFrame(A, targetFrame, onFrame) ==
    IF A.mixer = Null
    THEN [st |-> A, out |-> << >>]
    ELSE LET currentFrame == FrameOf(A.time) IN
         IF currentFrame = targetFrame
         THEN [st |-> A, out |-> << >>]
         ELSE [st |-> [A EXCEPT !.onFrameCallback = onFrame,
                                !.direction = IF targetFrame > currentFrame
                                              THEN 1 ELSE 0 - 1,
                                !.targetFrame = targetFrame,
                                !.isPlaying = TRUE,
                                !.animations = SetPaused(A.animations, FALSE)],
               out |-> IF onFrame # Null
                       THEN << Note(onFrame, currentFrame, targetFrame,
                                    "started") >>
                       ELSE << >>]

\* stopAnimation that also snaps the mixer to the target frame
stopAnimationSnaps(A) ==
    IF A.mixer = Null
    THEN A
    ELSE [A EXCEPT !.isPlaying = FALSE,
                   !.direction = 0,
                   !.time = TimeOfFrame(A.targetFrame),
                   !.currentFrame = A.targetFrame,
                   !.animations = SetPaused(A.animations, TRUE)]

\* stopAnimation without the isPlaying = false of line 953
stopAnimationLeavesPlaying(A) ==
    IF A.mixer = Null
    THEN A
    ELSE [A EXCEPT !.direction = 0,
                   !.animations = SetPaused(A.animations, TRUE)]

\* stopAnimation that flips action.paused instead of setting it
stopAnimationToggles(A) ==
    IF A.mixer = Null
    THEN A
    ELSE [A EXCEPT !.isPlaying = FALSE,
                   !.direction = 0,
                   !.animations = [i \in DOMAIN A.animations |->
                                      ~A.animations[i]]]

\* ---- stopAnimation() (main.js 950-960) ----
stopAnimation(A) ==
    IF A.mixer = Null
    THEN A
    ELSE [A EXCEPT !.isPlaying = FALSE,
                   !.direction = 0,
                   !.animations = SetPaused(A.animations, TRUE)]

\* setAnimationSpeed that also halts a seek
setAnimationSpeedStops(A, speed) ==
    [A EXCEPT !.speed = speed, !.isPlaying = FALSE]

\* ---- setAnimationSpeed(speed) (main.js 962-964) ----
setAnimationSpeed(A, speed) == [A EXCEPT !.speed = speed]

\* ---- updateDaytime(elevation, azimuth) (main.js 614-645) ----
\* TRUE when the call gets past the loadingComplete guard and moves the sun
updateDaytimeApplies(S) == S.loadingComplete

\* ---- fractions n / d with d > 0, for the floating-point intensities ----
Tenths(k) == [n |-> k, d |-> 10]
RLeq(x, y) == x.n * y.d =< y.n * x.d
REq(x, y) == x.n * y.d = y.n * x.d
RMax(x, y) == IF RLeq(y, x) THEN x ELSE y
RTimes(x, y) == [n |-> x.n * y.n, d |-> x.d * y.d]
ROver(x, y) == [n |-> x.n * y.d, d |-> x.d * y.n]

\* a reference that an `if (ref)` accepts
Truthy(ref) == ref # Null /\ ref # Undefined

\* new THREE.Vector3(): the sun before any updateDaytime has placed it
SunUnset == [placed |-> FALSE, elevation |-> 0, azimuth |-> 0]

\* no light, no renderer, no sun
LightingInit ==
    [hemisphere |-> Tenths(0), ambient |-> Tenths(0), point |-> Tenths(0),
     spot |-> Tenths(0), exposure |-> Tenths(0), sun |-> SunUnset]

\* the factor without the Math.max of line 625
IntensityFactorNoFloor(elevation) == [n |-> elevation + 90, d |-> 180]

\* Math.max(0.1, (elevation + 90) / 180) (main.js 624-625)
IntensityFactor(elevation) ==
    RMax(Tenths(1), [n |-> elevation + 90, d |-> 180])

\* the lighting updateDaytime(elevation, azimuth) leaves (main.js 614-645)
updateDaytime(S, L, elevation, azimuth) ==
    IF ~updateDaytimeApplies(S)
    THEN L
    ELSE LET intensity == IntensityFactor(elevation) IN
         [L EXCEPT
            !.sun = [placed |-> TRUE, elevation |-> elevation,
                     azimuth |-> azimuth],
            !.hemisphere = IF Truthy(S.hemisphereLight)
                           THEN RTimes(Tenths(HEMISPHERE_INTENSITY), intensity)
                           ELSE @,
            !.ambient = IF Truthy(S.ambientLight)
                        THEN RTimes(Tenths(AMBIENT_INTENSITY), intensity)
                        ELSE @,
            !.point = IF Truthy(S.pointLight)
                      THEN ROver(Tenths(POINT_LIGHT_INTENSITY), intensity)
                      ELSE @,
            !.spot = IF Truthy(S.spotLight)
                     THEN ROver(Tenths(SPOT_LIGHT_INTENSITY), intensity)
                     ELSE @,
            !.exposure = IF Truthy(S.renderer)
                         THEN RMax(Tenths(3), intensity)
                         ELSE @]

\* ---- updateAbajurMaterial(materialType) (main.js 697-719) ----
\* hasAbajur: the graph of loadModel, which holds the node "Abajur", has been
\* added to the current scene.  Every preset carries the name AbajurOutside,
\* so a replaced material can be replaced again.
updateAbajurMaterial(S, hasAbajur, mat, materialType) ==
    IF S.scene = Null
    THEN [threw |-> TRUE, material |-> mat]
    ELSE IF ~hasAbajur
    THEN [threw |-> FALSE, material |-> mat]
    ELSE IF materialType \notin Presets
    THEN [threw |-> FALSE, material |-> mat]
    ELSE [threw |-> FALSE, material |-> materialType]

\* cleanup3D that resets only what init3DScene itself created
cleanup3DContextOnly(S) ==
    [S EXCEPT !.renderer = Null, !.scene = Null, !.camera = Null,
              !.controls = Null, !.loadingComplete = FALSE,
              !.isLoading = TRUE]

\* ---- cleanup3D() (main.js 984-1006) ----
cleanup3D(S) ==
    [[k \in DOMAIN S |-> Null] EXCEPT !.loadingComplete = FALSE,
                                      !.isLoading = TRUE]

\* a guard that only recognises a finished activation
AlreadyInitializedWhenComplete(S) == S.scene # Null /\ S.loadingComplete

\* ---- the guard of init3DScene() (main.js 824) ----
AlreadyInitialized(S) == S.scene # Null

\* ---- init3DScene() up to the first await (main.js 823-840, 792-800) ----
\* a is the activation that creates the renderer, scene, camera and controls
CreateContext(S, a) ==
    [S EXCEPT !.renderer = a, !.scene = a, !.camera = a, !.controls = a,
              !.isLoading = TRUE]

\* ---- onLoad of loadBlenderScene (main.js 728-736) ----
BlenderLoaded(S, a) == [S EXCEPT !.blenderScene = a]

\* ---- onLoad of loadModel, SceneState part (main.js 750-767) ----
ModelLoaded(S, a) ==
    [S EXCEPT !.support = a, !.cylindricalBulb = a, !.sphericalBulb = a]

\* scene.getObjectByName(name) on the current scene: the node can only be
\* found when a loaded graph has been added to that scene
HasGraph(ld, s) ==
    s # Null /\ (ld[s].blender = "resolved" \/ ld[s].model = "resolved")

Lookup(ld, s, found, a) == IF HasGraph(ld, s) /\ found THEN a ELSE Undefined

\* ---- initScene() after Promise.all resolved (main.js 802-815, 816-820) ----
\* setupLighting stores the hemisphere light and then throws on a null scene;
\* the catch clears isLoading.  lightsFound: the loaded graphs hold the nodes
\* "Point" and "Spot" (a model variant may omit them)
SceneReady(S, ld, a, lightsFound) ==
    IF S.scene = Null
    THEN [S EXCEPT !.hemisphereLight = a, !.isLoading = FALSE]
    ELSE [S EXCEPT !.hemisphereLight = a, !.ambientLight = a,
                   !.sky = a, !.sun = a,
                   !.pointLight = Lookup(ld, S.scene, lightsFound, a),
                   !.spotLight = Lookup(ld, S.scene, lightsFound, a),
                   !.loadingComplete = TRUE,
                   !.isLoading = FALSE]

\* number of the two automatic updateDaytime calls (main.js 611, 815) that
\* take effect in that run of initScene
DaytimeApplied(S) ==
    IF S.scene = Null THEN 0
    ELSE (IF updateDaytimeApplies(S) THEN 1 ELSE 0) + 1

\* the lighting that run of initScene leaves: setupLighting, setupSky with
\* its updateDaytime, configureLights, updateDaytime (main.js 802-815); on a
\* null scene only the hemisphere light is made before setupLighting throws
LightingReady(S, L, ld, a, lightsFound) ==
    IF S.scene = Null
    THEN [L EXCEPT !.hemisphere = Tenths(HEMISPHERE_INTENSITY)]
    ELSE LET S1 == [S EXCEPT !.hemisphereLight = a, !.ambientLight = a,
                             !.sky = a, !.sun = a]
             L1 == [L EXCEPT !.hemisphere = Tenths(HEMISPHERE_INTENSITY),
                             !.ambient = Tenths(AMBIENT_INTENSITY),
                             !.sun = SunUnset]
             L2 == updateDaytime(S1, L1, SKY_ELEVATION, SKY_AZIMUTH)
             S3 == SceneReady(S, ld, a, lightsFound)
             L3 == [L2 EXCEPT
                      !.point = IF Truthy(S3.pointLight)
                                THEN Tenths(POINT_LIGHT_INTENSITY)
                                ELSE Tenths(0),
                      !.spot = IF Truthy(S3.spotLight)
                               THEN Tenths(SPOT_LIGHT_INTENSITY)
                               ELSE Tenths(0)]
         IN  updateDaytime(S3, L3, SKY_ELEVATION, SKY_AZIMUTH)

\* runs of setupLighting / setupSky that run of initScene adds to the
\* current scene (main.js 802-803)
SetupRuns(S) == IF S.scene = Null THEN 0 ELSE 1

\* scene.getObjectByName("Abajur") finds the node once the graph of loadModel
\* has been added to the current scene (main.js 698, 751)
HasAbajur(ld, s) == s # Null /\ ld[s].model = "resolved"

\* initializeRenderer that hands out a renderer whatever happens
initializeRendererAlways(container, webgl, a) == a

\* ---- initializeRenderer(container) (main.js 530-562) ----
\* container: the element exists; webgl: new THREE.WebGLRenderer succeeds
initializeRenderer(container, webgl, a) ==
    IF ~container THEN Null
    ELSE IF webgl THEN a
    ELSE Null

\* ---- initScene() catch after Promise.all rejected (main.js 816-820) ----
SceneFailed(S) == [S EXCEPT !.isLoading = FALSE]

\* ---- the first call of animate() (main.js 966-980) ----
LoopStarts(S) == S.renderer # Null

\* ---- later calls of animate(), one per live chain, in one display refresh:
\* the first reads the clock delta d, the others a delta of zero ----
RECURSIVE RunChains(_, _, _)
RunChains(A, n, d) ==
    IF n = 0
    THEN [st |-> A, out |-> << >>]
    ELSE LET r == updateAnimation(A, d)
             rest == RunChains(r.st, n - 1, 0)
         IN  [st |-> rest.st, out |-> r.out \o rest.out]

NoLoad == [blender |-> "none", model |-> "none"]
Pending == [blender |-> "pending", model |-> "pending"]
Other(which) == IF which = "blender" THEN "model" ELSE "blender"

Init ==
    /\ SceneState = SceneStateInit
    /\ AnimationState = AnimationStateInit
    /\ loads = [a \in Acts |-> NoLoad]
    /\ started = 0
    /\ loops = 0
    /\ autoDaytime = 0
    /\ setups = 0
    /\ lighting = LightingInit
    /\ material = "none"

\* window.playToFrame(targetFrame, onFrame)
PlayToFrame ==
    \E T \in Frames, cb \in Callbacks :
        LET r == playToFrame(AnimationState, T, cb) IN
        /\ AnimationState' = r.st
        /\ UNCHANGED <<SceneState, loads, started, loops, autoDaytime,
                       setups, lighting, material>>

\* window.stopAnimation()
StopAnimation ==
    /\ AnimationState' = stopAnimation(AnimationState)
    /\ UNCHANGED <<SceneState, loads, started, loops, autoDaytime,
                   setups, lighting, material>>

\* window.setAnimationSpeed(speed)
SetAnimationSpeed ==
    \E s \in Speeds :
        /\ AnimationState' = setAnimationSpeed(AnimationState, s)
        /\ UNCHANGED <<SceneState, loads, started, loops, autoDaytime,
                       setups, lighting, material>>

\* window.updateDaytime(elevation, azimuth)
UpdateDaytime ==
    \E elevation \in Elevations, azimuth \in Azimuths :
        /\ lighting' = updateDaytime(SceneState, lighting, elevation, azimuth)
        /\ UNCHANGED <<SceneState, AnimationState, loads, started, loops,
                       autoDaytime, setups, material>>

\* window.updateAbajurMaterial(materialType); a TypeError it throws goes to
\* the caller and leaves the state as it is
UpdateAbajurMaterial ==
    \E materialType \in MaterialTypes :
        LET r == updateAbajurMaterial(SceneState,
                                      HasAbajur(loads, SceneState.scene),
                                      material, materialType) IN
        /\ material' = r.material
        /\ UNCHANGED <<SceneState, AnimationState, loads, started, loops,
                       autoDaytime, setups, lighting>>

\* toggleView('3DView') -> init3DScene(): guard, renderer, context, initScene
\* up to the await (main.js 1049-1052, 823-844, 792-800)
Init3DSceneWith(container, webgl) ==
    LET renderer == initializeRenderer(container, webgl, started + 1) IN
    /\ UNCHANGED <<AnimationState, loops>>
    /\ IF AlreadyInitialized(SceneState) \/ renderer = Null
       THEN UNCHANGED <<SceneState, loads, started, autoDaytime, setups,
                        lighting, material>>
       ELSE /\ started < MaxAct
            /\ started' = started + 1
            /\ SceneState' = CreateContext(SceneState, renderer)
            /\ loads' = [loads EXCEPT ![started + 1] = Pending]
            /\ autoDaytime' = 0
            /\ setups' = 0
            /\ lighting' = [lighting EXCEPT !.exposure = Tenths(5)]
            /\ material' = "none"

Init3DScene == \E container \in BOOLEAN, webgl \in BOOLEAN :
                   Init3DSceneWith(container, webgl)

\* toggleView('imageView') -> cleanup3D() (main.js 1054-1057, 984-1006)
Cleanup3D ==
    /\ SceneState' = cleanup3D(SceneState)
    /\ lighting' = LightingInit
    /\ material' = "none"
    /\ UNCHANGED <<AnimationState, loads, started, loops, autoDaytime,
                   setups>>

\* the rest of init3DScene once initScene has returned: initializeAnimation()
\* and its first animate() with clock delta d (main.js 845, 966-980)
InitializeAnimation(S, A, d) ==
    IF LoopStarts(S)
    THEN LET r == updateAnimation(A, d) IN
         /\ loops' = loops + 1
         /\ AnimationState' = r.st
    ELSE /\ loops' = loops
         /\ AnimationState' = A

\* a load of activation a resolves: its onLoad runs and, when it was the last
\* of the two, so does the rest of initScene and init3DScene
\* (main.js 728-736, 750-771, 797-815, 845)
LoadResolve ==
    \E a \in Acts, which \in {"blender", "model"}, d \in Deltas,
       lightsFound \in BOOLEAN :
        /\ loads[a][which] = "pending"
        /\ LET ld == [loads EXCEPT ![a][which] = "resolved"]
               S1 == IF which = "blender"
                     THEN BlenderLoaded(SceneState, a)
                     ELSE ModelLoaded(SceneState, a)
               A1 == IF which = "blender"
                     THEN AnimationState
                     ELSE initializeAnimations(AnimationState, a)
           IN  /\ loads' = ld
               /\ started' = started
               /\ material' = IF which = "model" /\ SceneState.scene = a
                              THEN "original" ELSE material
               /\ IF ld[a][Other(which)] = "resolved"
                  THEN LET S2 == SceneReady(S1, ld, a, lightsFound)
                       IN  /\ SceneState' = S2
                           /\ autoDaytime' = autoDaytime + DaytimeApplied(S1)
                           /\ setups' = setups + SetupRuns(S1)
                           /\ lighting' = LightingReady(S1, lighting, ld, a,
                                                        lightsFound)
                           /\ InitializeAnimation(S2, A1, d)
                  ELSE /\ SceneState' = S1
                       /\ AnimationState' = A1
                       /\ UNCHANGED <<loops, autoDaytime, setups, lighting>>

\* a load of activation a rejects: the first rejection settles Promise.all and
\* runs the catch of initScene, then the rest of init3DScene
\* (main.js 740, 776, 816-820, 845)
LoadReject ==
    \E a \in Acts, which \in {"blender", "model"}, d \in Deltas :
        /\ loads[a][which] = "pending"
        /\ loads' = [loads EXCEPT ![a][which] = "rejected"]
        /\ UNCHANGED <<started, autoDaytime, setups, lighting, material>>
        /\ IF loads[a][Other(which)] # "rejected"
           THEN LET S1 == SceneFailed(SceneState) IN
                /\ SceneState' = S1
                /\ InitializeAnimation(S1, AnimationState, d)
           ELSE UNCHANGED <<SceneState, AnimationState, loops>>

\* animate() without the return of line 968
ChainAlwaysGoesOn(S) == TRUE

\* animate() of one chain on a display refresh: whether it schedules itself
\* again and issues its render call (main.js 968-969, 976)
ChainGoesOn(S) == S.renderer # Null

\* render calls issued in one display refresh with n chains scheduled
Renders(S, n) == IF ChainGoesOn(S) THEN n ELSE 0

\* one display refresh with clock delta d: every scheduled animate() runs
\* (main.js 967-977)
RefreshBy(d) ==
    /\ loops > 0
    /\ UNCHANGED <<SceneState, loads, started, autoDaytime, setups,
                   lighting, material>>
    /\ IF ~ChainGoesOn(SceneState)
       THEN /\ loops' = 0
            /\ UNCHANGED AnimationState
       ELSE LET r == RunChains(AnimationState, loops, d) IN
            /\ loops' = loops
            /\ AnimationState' = r.st

Refresh == \E d \in Deltas : RefreshBy(d)

\* a display refresh for which the clock has advanced
RefreshPositive == \E d \in Deltas \ {0} : RefreshBy(d)

\* the lifecycle with the animation handlers of the page
Next ==
    \/ PlayToFrame
    \/ StopAnimation
    \/ SetAnimationSpeed
    \/ Init3DScene
    \/ Cleanup3D
    \/ LoadResolve
    \/ LoadReject
    \/ Refresh

Spec == Init /\ [][Next]_vars

\* requestAnimationFrame keeps calling a scheduled animate(), and the clock
\* has advanced between two display refreshes
LiveSpec == Spec /\ WF_vars(RefreshPositive)

\* the lifecycle with the scene handlers of the page; these read and write
\* nothing of AnimationState, and the animation handlers nothing of the
\* lighting or the material
SceneNext ==
    \/ UpdateDaytime
    \/ UpdateAbajurMaterial
    \/ Init3DScene
    \/ Cleanup3D
    \/ LoadResolve
    \/ LoadReject
    \/ Refresh

SceneSpec == Init /\ [][SceneNext]_vars

\* ---- lifecycle states of section 4.4, read off the program state ----
JoinPending(a) ==
    /\ "pending" \in {loads[a].blender, loads[a].model}
    /\ "rejected" \notin {loads[a].blender, loads[a].model}

JoinRejected(a) == "rejected" \in {loads[a].blender, loads[a].model}

JoinResolved(a) == loads[a].blender = "resolved" /\ loads[a].model = "resolved"

Uninitialized == SceneState.renderer = Null
Initializing ==
    /\ SceneState.renderer # Null
    /\ JoinPending(SceneState.renderer)
    /\ ~SceneState.loadingComplete
Active == SceneState.renderer # Null /\ SceneState.loadingComplete

\* ---- controller states of section 4.3 ----
MixerLoaded == AnimationState.mixer # Null
AllPaused == \A i \in DOMAIN AnimationState.animations :
                 AnimationState.animations[i]

\* Seeking toward target frame T while a render loop is running
Seeking(T) ==
    /\ MixerLoaded
    /\ AnimationState.isPlaying
    /\ AnimationState.targetFrame = T
    /\ SceneState.renderer # Null
    /\ loops > 0

SeekingAny == \E T \in Frames : Seeking(T)

\* Ready exactly at frame T: mixer time is T / FRAMES_PER_SECOND seconds
Settled(T) ==
    /\ MixerLoaded
    /\ ~AnimationState.isPlaying
    /\ AnimationState.direction = 0
    /\ AnimationState.currentFrame = T
    /\ AnimationState.time * FRAMES_PER_SECOND = T * UnitsPerSecond
    /\ AllPaused

\* a further playToFrame / stop / deactivate call
Interfering == PlayToFrame \/ StopAnimation \/ Cleanup3D

OppositeSides(T1, cur, T2) ==
    (T1 < cur /\ cur < T2) \/ (T2 < cur /\ cur < T1)

RedirectStep ==
    /\ SeekingAny
    /\ PlayToFrame
    /\ OppositeSides(AnimationState.targetFrame, FrameOf(AnimationState.time),
                     AnimationState'.targetFrame)

Sign(x) == IF x > 0 THEN 1 ELSE IF x < 0 THEN 0 - 1 ELSE 0

\* the mixer has run past the target it is seeking (the next refresh snaps
\* it back)
Overshot ==
    Sign(AnimationState.targetFrame - FrameOf(AnimationState.time))
        # AnimationState.direction

C3_PlayToCurrentFrameIsNoOp ==
    \A T \in Frames, cb \in Callbacks :
        FrameOf(AnimationState.time) = T =>
            playToFrame(AnimationState, T, cb)
                = [st |-> AnimationState, out |-> << >>]

\* a seek with a registered callback is going on, the mixer stands on a frame
\* that can be asked for, and the currentFrame field lags behind it
C3_Witness ==
    /\ SeekingAny
    /\ AnimationState.onFrameCallback # Null
    /\ FrameOf(AnimationState.time) \in Frames
    /\ AnimationState.currentFrame # FrameOf(AnimationState.time)
    /\ AnimationState.targetFrame # FrameOf(AnimationState.time)

\* C4: stop() is idempotent: stop(); stop() leaves the state stop() leaves,
\* from every reachable state, with or without a mixer.
C4_StopIdempotent ==
    stopAnimation(stopAnimation(AnimationState)) = stopAnimation(AnimationState)

\* the controller was stopped in the middle of a seek, away from its target
C4_Witness ==
    /\ MixerLoaded
    /\ ~AnimationState.isPlaying
    /\ AnimationState.direction = 0
    /\ AllPaused
    /\ AnimationState.time # 0
    /\ FrameOf(AnimationState.time) # AnimationState.targetFrame

\* every SceneState field but the two loading flags is null
ContextNull(S) ==
    \A k \in DOMAIN S \ {"loadingComplete", "isLoading"} : S[k] = Null

\* C5: when a load of the current activation rejects, the lifecycle is back
\* at idle once the failure is handled: every SceneContext field null, the
\* loading flag cleared, a later activate() not stopped by the guard.
C5_FailedLoadReturnsToIdle ==
    [][\A a \in Acts :
          ( /\ SceneState.renderer = a
            /\ JoinPending(a)
            /\ "rejected" \in {loads'[a].blender, loads'[a].model} )
          => ( /\ ContextNull(SceneState')
               /\ ~SceneState'.isLoading
               /\ ~AlreadyInitialized(SceneState') )]_vars

\* C6: an activation whose two loads resolved is Active, with
\* loadingComplete true and isLoading false, and the automatic
\* updateDaytime(90, 90) has taken effect exactly once since it began.
C6_ActivationAppliesDaytimeOnce ==
    \A a \in Acts :
        (SceneState.renderer = a /\ JoinResolved(a))
        => ( /\ SceneState.loadingComplete
             /\ ~SceneState.isLoading
             /\ autoDaytime = 1 )

\* the AnimationState fields the round trip is about
AnimationShape(A) ==
    [isPlaying |-> A.isPlaying, direction |-> A.direction,
     currentFrame |-> A.currentFrame, targetFrame |-> A.targetFrame,
     speed |-> A.speed, onFrameCallback |-> A.onFrameCallback]

\* AnimationState once an activation begun in state A has completed with no
\* call in between: onLoad of loadModel, then the first animate()
ActivatedFrom(A, a, d) == updateAnimation(initializeAnimations(A, a), d).st

\* SceneState once an activation begun in state S has completed
SceneActivatedFrom(S, a, found) ==
    LET ld == [loads EXCEPT ![a] = [blender |-> "resolved",
                                    model |-> "resolved"]]
    IN  SceneReady(ModelLoaded(BlenderLoaded(CreateContext(S, a), a), a),
                   ld, a, found)

\* C7: from an Active state reached by any calls, deactivate() followed by
\* activate() with both loads resolving gives the state of a first-ever
\* successful activate(): the same SceneState, and isPlaying false,
\* direction 0, currentFrame 0, targetFrame 0, speed 1.5, no callback.
C7_RoundTrip ==
    Active =>
        \A a \in Acts, d \in Deltas, found \in BOOLEAN :
            /\ SceneActivatedFrom(cleanup3D(SceneState), a, found)
                   = SceneActivatedFrom(SceneStateInit, a, found)
            /\ AnimationShape(ActivatedFrom(AnimationState, a, d))
                   = AnimationShape(ActivatedFrom(AnimationStateInit, a, d))

\* C8: a load that resolves after its activation was torn down (its context
\* is not the current one) changes nothing: SceneState keeps its values and
\* the mixer and actions of AnimationState are not replaced.
C8_StaleLoadAppliesNothing ==
    [][\A a \in Acts, which \in {"blender", "model"} :
          ( /\ SceneState.renderer # a
            /\ loads[a][which] = "pending"
            /\ loads'[a][which] = "resolved" )
          => ( /\ SceneState' = SceneState
               /\ AnimationState'.mixer = AnimationState.mixer
               /\ AnimationState'.animations = AnimationState.animations
               /\ AnimationState'.time = AnimationState.time )]_vars

\* C9: activate() while Initializing or Active changes nothing: no renderer,
\* scene, camera or controls is created, no load is issued, no SceneState
\* field changes.
C9_ActivateGuarded ==
    [][((Initializing \/ Active) /\ Init3DScene) => UNCHANGED vars]_vars

\* loads of the current activation are under way and one has landed
C9_Witness ==
    /\ Initializing
    /\ "resolved" \in {loads[SceneState.renderer].blender,
                       loads[SceneState.renderer].model}
    /\ started < MaxAct

\* C10: after deactivate(), from any lifecycle state, every SceneState field
\* is null except loadingComplete = false and isLoading = true, and a
\* deactivate() in that state leaves it as it is.
C10_DeactivateResets ==
    [][Cleanup3D =>
          /\ ContextNull(SceneState')
          /\ SceneState'.loadingComplete = FALSE
          /\ SceneState'.isLoading = TRUE
          /\ cleanup3D(SceneState') = SceneState']_vars

\* torn down while the loads of the last activation were still pending
C10_Witness ==
    /\ started > 0
    /\ ContextNull(SceneState)
    /\ SceneState.isLoading
    /\ ~SceneState.loadingComplete
    /\ loads[started].blender = "pending"

\* the SceneContext fields that are set together by a successful activation
ContextFields ==
    {"renderer", "scene", "camera", "controls", "blenderScene", "sky", "sun",
     "ambientLight", "hemisphereLight"}

\* C11: in every state between two operations, renderer, scene, camera,
\* controls, backdrop scene, sky, sun, ambient light and hemisphere light
\* are all null or all non-null.
C11_AllOrNothing ==
    \/ \A k \in ContextFields : SceneState[k] = Null
    \/ \A k \in ContextFields : SceneState[k] # Null

\* C12: in every reachable state, isPlaying implies direction is -1 or 1.
C12_PlayingHasDirection ==
    AnimationState.isPlaying => AnimationState.direction \in {0 - 1, 1}

\* a seek backward is going on
C12_Witness ==
    /\ SeekingAny
    /\ AnimationState.direction = 0 - 1
    /\ AnimationState.time > 0
    /\ ~AllPaused

\* C13: in every reachable state, direction = 0 implies that every action
\* of the loaded mixer is paused.
C13_StoppedIsPaused ==
    (MixerLoaded /\ AnimationState.direction = 0) => AllPaused

\* a seek has been completed and left the actions of the mixer paused
C13_Witness ==
    /\ MixerLoaded
    /\ AnimationState.direction = 0
    /\ Len(AnimationState.animations) = NumClips
    /\ AllPaused
    /\ AnimationState.targetFrame = 1
    /\ AnimationState.currentFrame = 1

\* C14: in every reachable state with a mixer loaded, currentFrame is a
\* non-negative integer equal to round(mixer time * 60).
C14_CurrentFrameTracksMixer ==
    MixerLoaded =>
        /\ AnimationState.currentFrame >= 0
        /\ AnimationState.currentFrame = FrameOf(AnimationState.time)

\* C15: once deactivate() has cleared the renderer and no activate()
\* follows, the next display refresh issues no render call, does not
\* advance the animation controller and schedules no further tick; with
\* refreshes going on, a loop left scheduled is gone unless activate()
\* comes first.
C15_LoopStopsAfterDeactivate ==
    /\ [][(SceneState.renderer = Null /\ Refresh) =>
             /\ Renders(SceneState, loops) = 0
             /\ AnimationState' = AnimationState
             /\ loops' = 0]_vars
    /\ (SceneState.renderer = Null /\ loops > 0)
           ~> (loops = 0 \/ SceneState.renderer # Null)

\* a loop that had moved the mixer has stopped after a deactivate(), in the
\* middle of a seek
C15_Witness ==
    /\ SceneState.renderer = Null
    /\ loops = 0
    /\ AnimationState.isPlaying
    /\ AnimationState.time # 0

\* C16: updateAbajurMaterial with a name that is no key of the preset table
\* raises no error and replaces no material, in every lifecycle state.
C16_UnknownPresetIsNonFatal ==
    \A materialType \in MaterialTypes \ Presets :
        LET r == updateAbajurMaterial(SceneState,
                                      HasAbajur(loads, SceneState.scene),
                                      material, materialType)
        IN  ~r.threw /\ r.material = material

\* C17: activate() without a display surface, or with a renderer that
\* cannot be created, changes nothing (every SceneContext field as it was,
\* no load issued, no loop started), and activate() with the surface
\* available then creates the context a first activation creates and
\* issues its two loads.
C17_NoSurfaceNoContext ==
    [][\A container \in BOOLEAN, webgl \in BOOLEAN :
          /\ ( /\ ~(container /\ webgl)
               /\ Init3DSceneWith(container, webgl) )
             => UNCHANGED vars
          /\ ( /\ container /\ webgl
               /\ ~AlreadyInitialized(SceneState)
               /\ Init3DSceneWith(container, webgl) )
             => ( /\ SceneState' = CreateContext(SceneState, started')
                  /\ loads'[started'] = Pending
                  /\ SceneState'.renderer \notin {Null, SceneState.renderer}
                  /\ (SceneState = SceneStateInit =>
                         SceneState' = CreateContext(SceneStateInit,
                                                     started')) )]_vars

\* a first activation has been made, after which nothing was created yet
\* by a second one
C17_Witness ==
    /\ SceneState = CreateContext(SceneStateInit, 1)
    /\ loads[1] = Pending
    /\ started = 1
    /\ loops = 0

\* C18: for integer elevations from -90 to 90 the intensity factor is
\* non-decreasing and within [0.1, 1.0]; the hemisphere and ambient
\* intensities updateDaytime sets are non-decreasing in the elevation, the
\* point and spot intensities non-increasing.
C18_IntensityMonotone ==
    \A e \in (0 - SKY_ELEVATION)..(SKY_ELEVATION - 1) :
        LET lo == updateDaytime(SceneState, lighting, e, SKY_AZIMUTH)
            hi == updateDaytime(SceneState, lighting, e + 1, SKY_AZIMUTH)
        IN  /\ RLeq(IntensityFactor(e), IntensityFactor(e + 1))
            /\ RLeq(Tenths(1), IntensityFactor(e))
            /\ RLeq(IntensityFactor(e + 1), Tenths(10))
            /\ RLeq(lo.hemisphere, hi.hemisphere)
            /\ RLeq(lo.ambient, hi.ambient)
            /\ RLeq(hi.point, lo.point)
            /\ RLeq(hi.spot, lo.spot)

\* the scene is Active with its point and spot lights found, and
\* updateDaytime has put the sun at the lowest elevation: the point light is
\* at ten times its nominal intensity
C18_Witness ==
    /\ Active
    /\ Truthy(SceneState.pointLight)
    /\ Truthy(SceneState.spotLight)
    /\ lighting.sun.placed
    /\ lighting.sun.elevation = 0 - SKY_ELEVATION
    /\ REq(lighting.point, Tenths(10 * POINT_LIGHT_INTENSITY))
    /\ REq(lighting.hemisphere, [n |-> HEMISPHERE_INTENSITY, d |-> 100])

\* C19: loadingComplete holds only if both loads of the activation that
\* created the current scene and renderer have resolved and setupLighting /
\* setupSky have run exactly once on the current scene.
C19_CompleteOnlyWhenLoaded ==
    SceneState.loadingComplete =>
        /\ SceneState.renderer # Null
        /\ SceneState.scene = SceneState.renderer
        /\ JoinResolved(SceneState.renderer)
        /\ setups = 1

\* C20: at most one render loop is live: on a display refresh at most one
\* animate() runs, so the controller is advanced once and one render call
\* is issued.
C20_AtMostOneLoop ==
    /\ loops =< 1
    /\ Renders(SceneState, loops) =< 1

\* C21: a render loop is started only by an activation whose two loads have
\* just both resolved and whose lighting / environment setup has completed
\* in that step; never when a load of it has failed or its setup threw.
C21_LoopOnlyAfterSetup ==
    [][loops' > loops =>
          \E a \in Acts :
              /\ ~JoinResolved(a)
              /\ JoinResolved(a)'
              /\ setups' = setups + 1
              /\ SceneState'.loadingComplete]_vars

\* C22: when initializeAnimations has run (the model load of an activation
\* has resolved), the controller is Ready at the start: isPlaying false,
\* direction 0, currentFrame 0, mixer time 0, every action paused, and the
\* animate() that may follow in the same step has not moved the mixer.
C22_InitializeGivesReady ==
    [][\A a \in Acts :
          (loads[a].model = "pending" /\ loads'[a].model = "resolved")
          => ( /\ ~AnimationState'.isPlaying
               /\ AnimationState'.direction = 0
               /\ AnimationState'.currentFrame = 0
               /\ AnimationState'.time = 0
               /\ Len(AnimationState'.animations) = NumClips
               /\ \A i \in DOMAIN AnimationState'.animations :
                      AnimationState'.animations[i] )]_vars

\* number of animate() chains a display refresh can run
MaxChains == MaxAct + 1

\* C23: stop() while Seeking clears isPlaying and direction and pauses every
\* action, leaves mixer time, currentFrame, targetFrame, speed and the
\* callback as they are (no snap to the target) and calls no callback; the
\* ticks that follow change nothing and call no callback.
C23_StopWhileSeeking ==
    (MixerLoaded /\ AnimationState.isPlaying) =>
        LET B == stopAnimation(AnimationState) IN
        /\ ~B.isPlaying
        /\ B.direction = 0
        /\ \A i \in DOMAIN B.animations : B.animations[i]
        /\ B.time = AnimationState.time
        /\ B.currentFrame = AnimationState.currentFrame
        /\ B.targetFrame = AnimationState.targetFrame
        /\ B.speed = AnimationState.speed
        /\ B.onFrameCallback = AnimationState.onFrameCallback
        /\ B.mixer = AnimationState.mixer
        /\ \A d \in Deltas, n \in 1..MaxChains :
               RunChains(B, n, d) = [st |-> B, out |-> << >>]

\* a seek with a callback is under way, short of its target, with the
\* actions running
C23_Witness ==
    /\ SeekingAny
    /\ AnimationState.onFrameCallback # Null
    /\ AnimationState.direction = 1
    /\ AnimationState.time > 0
    /\ FrameOf(AnimationState.time) < AnimationState.targetFrame
    /\ ~AllPaused

\* the tick updateAnimation(A, d) is an advancing one: it ends still playing
Advances(A, d) == updateAnimation(A, d).st.isPlaying

\* C24: setAnimationSpeed(s) is accepted in every state and changes only
\* the speed field; the next advancing tick moves the mixer by
\* delta * direction * s.
C24_SetSpeedOnlySetsSpeed ==
    \A s \in Speeds :
        LET B == setAnimationSpeed(AnimationState, s) IN
        /\ B.speed = s
        /\ \A k \in DOMAIN AnimationState \ {"speed"} :
               B[k] = AnimationState[k]
        /\ \A d \in Deltas :
               Advances(AnimationState, d) =>
                   updateAnimation(B, d).st.time
                       = AnimationState.time
                           + d * AnimationState.direction * s

\* a seek backward whose last tick ran at the slower speed set during it
C24_Witness ==
    /\ SeekingAny
    /\ AnimationState.direction = 0 - 1
    /\ AnimationState.speed < DefaultSpeed
    /\ AnimationState.time = 0 - 1

\* C25: whatever number setAnimationSpeed is given, speed is positive
\* afterwards, so an advancing tick with positive delta moves the mixer time
\* strictly toward the target.
C25_SpeedStaysPositive ==
    \A s \in SpeedArguments :
        LET B == setAnimationSpeed(AnimationState, s) IN
        /\ B.speed > 0
        /\ \A d \in Deltas \ {0} :
               Advances(B, d) =>
                   LET t == updateAnimation(B, d).st.time IN
                   /\ (B.direction > 0 => t > B.time)
                   /\ (B.direction < 0 => t < B.time)

\* (elevation + 90) / 180 clamped to the range [0.1, 1.0]
ClampedFactor(elevation) ==
    LET timeOfDay == [n |-> elevation + 90, d |-> 180] IN
    IF RLeq(timeOfDay, Tenths(1)) THEN Tenths(1)
    ELSE IF RLeq(Tenths(10), timeOfDay) THEN Tenths(10)
    ELSE timeOfDay

\* C26: while Active, for every elevation (also below -90 and above 90) the
\* factor updateDaytime uses is (elevation + 90) / 180 clamped to
\* [0.1, 1.0], hemisphere / ambient intensity is nominal * factor, point /
\* spot intensity is nominal / factor, exposure is max(0.3, factor).
C26_IntensityFormulas ==
    Active =>
        \A e \in (0 - MaxElevation)..MaxElevation :
            LET L == updateDaytime(SceneState, lighting, e, SKY_AZIMUTH)
                f == ClampedFactor(e)
            IN  /\ REq(IntensityFactor(e), f)
                /\ Truthy(SceneState.hemisphereLight) =>
                       REq(L.hemisphere,
                           RTimes(Tenths(HEMISPHERE_INTENSITY), f))
                /\ Truthy(SceneState.ambientLight) =>
                       REq(L.ambient, RTimes(Tenths(AMBIENT_INTENSITY), f))
                /\ Truthy(SceneState.pointLight) =>
                       REq(L.point, ROver(Tenths(POINT_LIGHT_INTENSITY), f))
                /\ Truthy(SceneState.spotLight) =>
                       REq(L.spot, ROver(Tenths(SPOT_LIGHT_INTENSITY), f))
                /\ REq(L.exposure, RMax(Tenths(3), f))

\* a frame strictly on the side of target T a seek in direction dir began on
StartingSide(dir, frame, T) ==
    (dir > 0 /\ frame < T) \/ (dir < 0 /\ frame > T)

\* the notifications out, handed out by the ticks of one display refresh
\* that began in controller state A, follow the protocol: "playing" notes
\* for the registered callback and target, from the starting side, then at
\* most one "completed" note at the target, which is the last
TickNotesFollowProtocol(A, out) ==
    \A i \in 1..Len(out) :
        /\ out[i].cb = A.onFrameCallback
        /\ out[i].targetFrame = A.targetFrame
        /\ \/ /\ out[i].status = "playing"
              /\ StartingSide(A.direction, out[i].currentFrame, A.targetFrame)
           \/ /\ out[i].status = "completed"
              /\ out[i].currentFrame = A.targetFrame
              /\ i = Len(out)

Completed(out) == \E i \in 1..Len(out) : out[i].status = "completed"

\* controller states a tick can begin in: the current one, and the one left
\* by the onLoad of loadModel just before it
TickStarts ==
    {AnimationState} \cup
        {initializeAnimations(AnimationState, a) : a \in Acts}

====
